---- MODULE Spec2Model ----
(***************************************************************************)
(* Model of chat_with_battery: the daily summary computed from the rows of *)
(* data/day1.json by the dataclean.py script and by the Telegram bot's     *)
(* generate_daily_report, and the request handlers of the bot.             *)
(*                                                                         *)
(* Numbers.  Every telemetry value is a multiple of 0.25 and is held as    *)
(* its count of quarters, so that sums are exact in binary floating point. *)
(* A metric rounded to 1 decimal is held in tenths, one rounded to 2       *)
(* decimals in hundredths.  A percentage metric is a float that may be     *)
(* infinite or NaN and is held as a record [kind, v].                      *)
(***************************************************************************)
EXTENDS Integers, Sequences, FiniteSets, TLC

VARIABLES
    rows,           \* the records of data/day1.json, in file order
    missing,        \* the column absent from every record, or "none"
    fileOk,         \* data/day1.json exists and parses
    apiKey,         \* ANTHROPIC_API_KEY is set in the environment
    mode,           \* which program runs: "compute", "bot" or "script"
    scriptSummary,  \* outcome of the summary computation of dataclean.py
    scriptPrev,     \* outcome of that computation in the run before
    botSummary,     \* outcome of the latest summary computation of the bot
    botPrev,        \* outcome of the bot's computation before the latest
    botWeather,     \* outcome of the weather lookup of the latest computation
    daily_cache,    \* BatteryTelegramBot.daily_cache
    last_generated_date, \* BatteryTelegramBot.last_generated_date
    queue,          \* the updates received by the bot and not yet dispatched
    cur,            \* the update whose handler runs or ran last
    received,       \* the number of updates received
    redundant,      \* a /daily that arrived while another was pending or in
                    \* flight computed the summary again
    log,            \* the calls completed for the current update, or by the
                    \* script, in order, with their outcomes
    plan,           \* the calls the running handler goes on to make once
                    \* the call it awaits completes, with their outcomes
    weather_json,   \* the outcome of the weather lookup of the running
                    \* handler, or None
    spc,            \* the script's position: start, loop, done or crashed
    crash,          \* the text of the exception that ended the script
    messages,       \* the script's message history, as its roles in order
    follow_up       \* the line last typed at the follow-up prompt, or "None"

computeVars ==
    <<scriptSummary, scriptPrev, botSummary, botPrev, botWeather>>
envVars == <<rows, missing, fileOk, apiKey, mode>>
cacheVars == <<daily_cache, last_generated_date>>
botVars == <<queue, cur, received, redundant>>
scriptVars == <<spc, crash, messages, follow_up>>
handlerVars == <<plan, weather_json>>

\* ---------------------------------------------------------------- bounds
MaxRows == 2

\* ---------------------------------------------------------------- columns
Columns ==
    {"timestamp", "pv_profile", "pv_utilized_kw_opt", "pv_to_grid_kw_opt",
     "pv_to_battery_kw_opt", "grid_to_battery_kw_opt", "battery_to_load_kw_opt",
     "battery_to_grid_kw_opt", "grid_import_kw_opt", "grid_export_kw_opt",
     "gross_load", "net_load", "foreign_power_costs", "electricity_savings_step",
     "feed_in_revenue_delta_step", "SOC_opt"}

None == [status |-> "none"]
Ok(s) == [status |-> "ok", summary |-> s]
Err(e) == [status |-> "error", error |-> e]

\* ---------------------------------------------------------------- floats
Finite(v) == [kind |-> "finite", v |-> v]
PosInf == [kind |-> "inf", v |-> 0]
NegInf == [kind |-> "-inf", v |-> 0]
NaN == [kind |-> "nan", v |-> 0]

\* num / den rounded to the nearest integer, ties to the even one (den > 0):
\* numpy's rounding of a float64.
RoundHalfEven(num, den) ==
    LET q == num \div den
        r == num % den
    IN  IF 2 * r < den THEN q
        ELSE IF 2 * r > den THEN q + 1
        ELSE IF q % 2 = 0 THEN q ELSE q + 1

\* round(x, 1) of x = q quarters, in tenths; a mutant rounds to a whole number.
Round1Whole(q) == RoundHalfEven(q, 4) * 10
Round1(q) == RoundHalfEven(q * 10, 4)

\* round(x, 2) of x = q quarters, in hundredths (every quarter is exact).
Round2(q) == RoundHalfEven(q * 100, 4)

\* round(num / den * 100, 1) of two float64 sums, in tenths of a percent:
\* numpy division by zero gives inf, -inf or nan and raises nothing.
\* A mutant forgets the factor 100.
PctFraction(num, den) ==
    IF den = 0
    THEN IF num > 0 THEN PosInf ELSE IF num < 0 THEN NegInf ELSE NaN
    ELSE IF den > 0 THEN Finite(RoundHalfEven(num * 10, den))
    ELSE Finite(RoundHalfEven((0 - num) * 10, 0 - den))
PctRound1(num, den) ==
    IF den = 0
    THEN IF num > 0 THEN PosInf ELSE IF num < 0 THEN NegInf ELSE NaN
    ELSE IF den > 0 THEN Finite(RoundHalfEven(num * 1000, den))
    ELSE Finite(RoundHalfEven((0 - num) * 1000, 0 - den))

\* ---------------------------------------------------------------- pandas
\* A mutant of the column sum alternates the sign of the terms.
RECURSIVE ColSumDiff(_, _)
ColSumDiff(rs, c) == IF rs = <<>> THEN 0 ELSE rs[1][c] - ColSumDiff(Tail(rs), c)

RECURSIVE ColSum(_, _)
ColSum(rs, c) == IF rs = <<>> THEN 0 ELSE rs[1][c] + ColSum(Tail(rs), c)

ColMax(rs, c) ==
    CHOOSE v \in {rs[i][c] : i \in 1..Len(rs)} : \A j \in 1..Len(rs) : rs[j][c] <= v
ColMin(rs, c) ==
    CHOOSE v \in {rs[i][c] : i \in 1..Len(rs)} : \A j \in 1..Len(rs) : rs[j][c] >= v

\* Series.idxmax / idxmin: the label of the first occurrence of the extremum.
IdxMaxLast(rs, c) ==
    CHOOSE i \in 1..Len(rs) :
        /\ rs[i][c] = ColMax(rs, c)
        /\ \A j \in (i + 1)..Len(rs) : rs[j][c] # ColMax(rs, c)
IdxMax(rs, c) ==
    CHOOSE i \in 1..Len(rs) :
        /\ rs[i][c] = ColMax(rs, c)
        /\ \A j \in 1..(i - 1) : rs[j][c] # ColMax(rs, c)
IdxMin(rs, c) ==
    CHOOSE i \in 1..Len(rs) :
        /\ rs[i][c] = ColMin(rs, c)
        /\ \A j \in 1..(i - 1) : rs[j][c] # ColMin(rs, c)

\* ---------------------------------------------------------------- timestamps
\* A timestamp is its count of minutes since 2024-01-01 00:00.
Digit == <<"0", "1", "2", "3", "4", "5", "6", "7", "8", "9">>
TwoDigits(n) == Digit[(n \div 10) + 1] \o Digit[(n % 10) + 1]

\* timestamp.strftime("%H:%M")
HHMM(t) ==
    TwoDigits((t % 1440) \div 60) \o ":"
        \o TwoDigits(t % 60)

\* str(timestamp.date())
DateStr(t) == "2024-01-" \o TwoDigits((t \div 1440) + 1)

\* ---------------------------------------------------------------- summary
\* The metric names of the summary table.
TableKeys ==
    {"date", "total_solar", "solar_self_consumed", "solar_exported",
     "battery_charged", "battery_discharged", "grid_import", "grid_export",
     "savings", "peak_price_time", "peak_price", "cheap_price_time",
     "cheap_price", "sunniest_hour", "solar_coverage_pct", "export_ratio_pct",
     "battery_contribution_pct", "soc_swing", "grid_dependence_pct"}

\* A mutant of the script's summary subtracts the SOC extremes the wrong way
\* round.
ScriptSummarySwing(rs) ==
    [date |-> DateStr(rs[1]["timestamp"]),
     total_solar |-> Round1(ColSum(rs, "pv_profile")),
     solar_self_consumed |-> Round1(ColSum(rs, "pv_utilized_kw_opt")),
     solar_exported |-> Round1(ColSum(rs, "pv_to_grid_kw_opt")),
     battery_charged |->
        Round1(ColSum(rs, "pv_to_battery_kw_opt") + ColSum(rs, "grid_to_battery_kw_opt")),
     battery_discharged |->
        Round1(ColSum(rs, "battery_to_load_kw_opt") + ColSum(rs, "battery_to_grid_kw_opt")),
     grid_import |-> Round1(ColSum(rs, "grid_import_kw_opt")),
     grid_export |-> Round1(ColSum(rs, "grid_export_kw_opt")),
     savings |->
        Round2(ColSum(rs, "electricity_savings_step")
               + ColSum(rs, "feed_in_revenue_delta_step")),
     peak_price_time |-> HHMM(rs[IdxMax(rs, "foreign_power_costs")]["timestamp"]),
     peak_price |-> Round2(ColMax(rs, "foreign_power_costs")),
     cheap_price_time |-> HHMM(rs[IdxMin(rs, "foreign_power_costs")]["timestamp"]),
     cheap_price |-> Round2(ColMin(rs, "foreign_power_costs")),
     sunniest_hour |-> HHMM(rs[IdxMax(rs, "pv_profile")]["timestamp"]),
     solar_coverage_pct |->
        PctRound1(ColSum(rs, "pv_utilized_kw_opt"), ColSum(rs, "gross_load")),
     export_ratio_pct |->
        IF ColSum(rs, "pv_profile") > 0
        THEN PctRound1(ColSum(rs, "pv_to_grid_kw_opt"), ColSum(rs, "pv_profile"))
        ELSE Finite(0),
     battery_contribution_pct |->
        PctRound1(ColSum(rs, "battery_to_load_kw_opt") + ColSum(rs, "battery_to_grid_kw_opt"),
                  ColSum(rs, "net_load")),
     soc_swing |-> Round2(ColMin(rs, "SOC_opt") - ColMax(rs, "SOC_opt")),
     grid_dependence_pct |->
        PctRound1(ColSum(rs, "grid_import_kw_opt"), ColSum(rs, "gross_load"))]

\* dataclean.py: the summary dict of a loaded frame with every column.
ScriptSummary(rs) ==
    [date |-> DateStr(rs[1]["timestamp"]),
     total_solar |-> Round1(ColSum(rs, "pv_profile")),
     solar_self_consumed |-> Round1(ColSum(rs, "pv_utilized_kw_opt")),
     solar_exported |-> Round1(ColSum(rs, "pv_to_grid_kw_opt")),
     battery_charged |->
        Round1(ColSum(rs, "pv_to_battery_kw_opt") + ColSum(rs, "grid_to_battery_kw_opt")),
     battery_discharged |->
        Round1(ColSum(rs, "battery_to_load_kw_opt") + ColSum(rs, "battery_to_grid_kw_opt")),
     grid_import |-> Round1(ColSum(rs, "grid_import_kw_opt")),
     grid_export |-> Round1(ColSum(rs, "grid_export_kw_opt")),
     savings |->
        Round2(ColSum(rs, "electricity_savings_step")
               + ColSum(rs, "feed_in_revenue_delta_step")),
     peak_price_time |-> HHMM(rs[IdxMax(rs, "foreign_power_costs")]["timestamp"]),
     peak_price |-> Round2(ColMax(rs, "foreign_power_costs")),
     cheap_price_time |-> HHMM(rs[IdxMin(rs, "foreign_power_costs")]["timestamp"]),
     cheap_price |-> Round2(ColMin(rs, "foreign_power_costs")),
     sunniest_hour |-> HHMM(rs[IdxMax(rs, "pv_profile")]["timestamp"]),
     solar_coverage_pct |->
        PctRound1(ColSum(rs, "pv_utilized_kw_opt"), ColSum(rs, "gross_load")),
     export_ratio_pct |->
        IF ColSum(rs, "pv_profile") > 0
        THEN PctRound1(ColSum(rs, "pv_to_grid_kw_opt"), ColSum(rs, "pv_profile"))
        ELSE Finite(0),
     battery_contribution_pct |->
        PctRound1(ColSum(rs, "battery_to_load_kw_opt") + ColSum(rs, "battery_to_grid_kw_opt"),
                  ColSum(rs, "net_load")),
     soc_swing |-> Round2(ColMax(rs, "SOC_opt") - ColMin(rs, "SOC_opt")),
     grid_dependence_pct |->
        PctRound1(ColSum(rs, "grid_import_kw_opt"), ColSum(rs, "gross_load"))]

\* generate_daily_report's summary dict with the sun hours of the weather
\* lookup added to total_solar.
BotSummaryLeak(rs, sun) ==
    [date |-> DateStr(rs[1]["timestamp"]),
     total_solar |-> Round1(ColSum(rs, "pv_profile")) + sun,
     solar_self_consumed |-> Round1(ColSum(rs, "pv_utilized_kw_opt")),
     solar_exported |-> Round1(ColSum(rs, "pv_to_grid_kw_opt")),
     battery_charged |->
        Round1(ColSum(rs, "pv_to_battery_kw_opt") + ColSum(rs, "grid_to_battery_kw_opt")),
     battery_discharged |->
        Round1(ColSum(rs, "battery_to_load_kw_opt") + ColSum(rs, "battery_to_grid_kw_opt")),
     grid_import |-> Round1(ColSum(rs, "grid_import_kw_opt")),
     grid_export |-> Round1(ColSum(rs, "grid_export_kw_opt")),
     savings |->
        Round2(ColSum(rs, "electricity_savings_step")
               + ColSum(rs, "feed_in_revenue_delta_step")),
     peak_price_time |-> HHMM(rs[IdxMax(rs, "foreign_power_costs")]["timestamp"]),
     peak_price |-> Round2(ColMax(rs, "foreign_power_costs")),
     cheap_price_time |-> HHMM(rs[IdxMin(rs, "foreign_power_costs")]["timestamp"]),
     cheap_price |-> Round2(ColMin(rs, "foreign_power_costs")),
     sunniest_hour |-> HHMM(rs[IdxMax(rs, "pv_profile")]["timestamp"]),
     solar_coverage_pct |->
        PctRound1(ColSum(rs, "pv_utilized_kw_opt"), ColSum(rs, "gross_load")),
     export_ratio_pct |->
        IF ColSum(rs, "pv_profile") > 0
        THEN PctRound1(ColSum(rs, "pv_to_grid_kw_opt"), ColSum(rs, "pv_profile"))
        ELSE Finite(0),
     battery_contribution_pct |->
        PctRound1(ColSum(rs, "battery_to_load_kw_opt") + ColSum(rs, "battery_to_grid_kw_opt"),
                  ColSum(rs, "net_load")),
     soc_swing |-> Round2(ColMax(rs, "SOC_opt") - ColMin(rs, "SOC_opt")),
     grid_dependence_pct |->
        PctRound1(ColSum(rs, "grid_import_kw_opt"), ColSum(rs, "gross_load")),
     sun_hours_tomorrow |-> sun]
BotSummary(rs, sun) ==
    [date |-> DateStr(rs[1]["timestamp"]),
     total_solar |-> Round1(ColSum(rs, "pv_profile")),
     solar_self_consumed |-> Round1(ColSum(rs, "pv_utilized_kw_opt")),
     solar_exported |-> Round1(ColSum(rs, "pv_to_grid_kw_opt")),
     battery_charged |->
        Round1(ColSum(rs, "pv_to_battery_kw_opt") + ColSum(rs, "grid_to_battery_kw_opt")),
     battery_discharged |->
        Round1(ColSum(rs, "battery_to_load_kw_opt") + ColSum(rs, "battery_to_grid_kw_opt")),
     grid_import |-> Round1(ColSum(rs, "grid_import_kw_opt")),
     grid_export |-> Round1(ColSum(rs, "grid_export_kw_opt")),
     savings |->
        Round2(ColSum(rs, "electricity_savings_step")
               + ColSum(rs, "feed_in_revenue_delta_step")),
     peak_price_time |-> HHMM(rs[IdxMax(rs, "foreign_power_costs")]["timestamp"]),
     peak_price |-> Round2(ColMax(rs, "foreign_power_costs")),
     cheap_price_time |-> HHMM(rs[IdxMin(rs, "foreign_power_costs")]["timestamp"]),
     cheap_price |-> Round2(ColMin(rs, "foreign_power_costs")),
     sunniest_hour |-> HHMM(rs[IdxMax(rs, "pv_profile")]["timestamp"]),
     solar_coverage_pct |->
        PctRound1(ColSum(rs, "pv_utilized_kw_opt"), ColSum(rs, "gross_load")),
     export_ratio_pct |->
        IF ColSum(rs, "pv_profile") > 0
        THEN PctRound1(ColSum(rs, "pv_to_grid_kw_opt"), ColSum(rs, "pv_profile"))
        ELSE Finite(0),
     battery_contribution_pct |->
        PctRound1(ColSum(rs, "battery_to_load_kw_opt") + ColSum(rs, "battery_to_grid_kw_opt"),
                  ColSum(rs, "net_load")),
     soc_swing |-> Round2(ColMax(rs, "SOC_opt") - ColMin(rs, "SOC_opt")),
     grid_dependence_pct |->
        PctRound1(ColSum(rs, "grid_import_kw_opt"), ColSum(rs, "gross_load")),
     sun_hours_tomorrow |-> sun]

\* str(e) of the exceptions of loading and of a column lookup.
FileErrText == "File data/day1.json does not exist"
KeyErrText(c) == "'" \o c \o "'"

\* pd.read_json and the timestamp conversion: the error raised, or "none".
LoadError(rs, miss, ok) ==
    IF ~ok THEN FileErrText
    ELSE IF rs = <<>> \/ miss = "timestamp" THEN KeyErrText("timestamp")
    ELSE "none"

\* Building the summary dict raises KeyError at the absent column.
ScriptCompute(rs, miss) ==
    IF miss # "none" THEN Err(KeyErrText(miss)) ELSE Ok(ScriptSummary(rs))
BotCompute(rs, miss, sun) ==
    IF miss # "none" THEN Err(KeyErrText(miss)) ELSE Ok(BotSummary(rs, sun))

\* ---------------------------------------------------------------- weather
\* A value of the forecast's JSON: null, or a number (in tenths).
JsonNull == [null |-> TRUE]
JsonNum(v) == [null |-> FALSE, v |-> v]

\* An outcome of the open-meteo lookup: it failed (request, JSON or a missing
\* key: the bare except takes every one), or it returned the sunshine
\* durations of today and tomorrow in seconds and the temperatures, which may
\* be null; temperature_2m_max[0] stands for the temperature and
\* precipitation values, which the code treats alike.
WeatherOutcomes ==
    {[ok |-> FALSE, today |-> 0, tomorrow |-> 0, max_temp_today |-> JsonNull],
     [ok |-> TRUE, today |-> 21600, tomorrow |-> 20000, max_temp_today |-> JsonNum(215)],
     [ok |-> TRUE, today |-> 21600, tomorrow |-> 20000, max_temp_today |-> JsonNull]}

\* sunshine_duration / 3600, unrounded.  A number of hours is held as its
\* count of 3600ths of an hour, which for a duration in whole seconds is the
\* count of seconds: the quotient is kept exact.
SunHours(secs) == (secs * 3600) \div 3600

\* f"{h:.1f}" of a number of hours, in tenths of an hour (no drawn value is
\* a tie).
Fmt1(h) == RoundHalfEven(h, 360)

\* generate_daily_report: sun_hours_tomorrow and weather_summary, with the
\* fallback values of the except branch (5.0 h, and 5.0 h / 6.0 h / 20.0).
BotSunHoursTomorrow(w) == IF w.ok THEN SunHours(w.tomorrow) ELSE 18000
BotWeatherSummary(w) ==
    IF w.ok
    THEN [sun_hours_today |-> SunHours(w.today), sun_hours_tomorrow |-> SunHours(w.tomorrow),
          max_temp_today |-> w.max_temp_today]
    ELSE [sun_hours_today |-> 18000, sun_hours_tomorrow |-> 21600,
          max_temp_today |-> JsonNum(200)]

\* The weather lines of a prompt: every value is formatted with ':.1f',
\* which raises TypeError on None.
PromptErrText == "unsupported format string passed to NoneType.__format__"
PromptError(ws) == IF ws.max_temp_today.null THEN PromptErrText ELSE "none"
PromptWeather(ws) ==
    [sun_hours_today |-> Fmt1(ws.sun_hours_today),
     sun_hours_tomorrow |-> Fmt1(ws.sun_hours_tomorrow),
     max_temp_today |-> ws.max_temp_today.v]

\* ---------------------------------------------------------------- inputs
\* The rows the model draws: one row per hour from a start time, each row
\* fixed by its solar production, its price, its gross load and its net load
\* (quarters of a kW / of a cent); the other columns follow from these.
Starts == {450}
PvVals == {-1, 0, 3}
PriceVals == {-1, 2}
LoadVals == {0, 3}
NetVals == {0, 2}
RowParams == PvVals \X PriceVals \X LoadVals \X NetVals

MkRow(t, p) ==
    LET pv == p[1]
        price == p[2]
        share == IF pv > 0 THEN 1 ELSE pv
        b2g == IF price > 0 /\ pv = 0 THEN 1 ELSE 0
    IN  [timestamp |-> t,
         pv_profile |-> pv,
         pv_utilized_kw_opt |-> share,
         pv_to_grid_kw_opt |-> share,
         pv_to_battery_kw_opt |-> IF pv > 0 THEN 1 ELSE 0,
         grid_to_battery_kw_opt |-> IF price < 0 THEN 1 ELSE 0,
         battery_to_load_kw_opt |-> IF price > 0 THEN 1 ELSE 0,
         battery_to_grid_kw_opt |-> b2g,
         grid_import_kw_opt |-> IF pv <= 0 THEN p[3] ELSE 0,
         grid_export_kw_opt |-> share + b2g,
         gross_load |-> p[3],
         net_load |-> p[4],
         foreign_power_costs |-> price,
         electricity_savings_step |-> price,
         feed_in_revenue_delta_step |-> share,
         SOC_opt |-> IF pv > 0 THEN 3 ELSE 1]

RowSeqs(n, start) ==
    {[i \in 1..n |-> MkRow(start + 60 * (i - 1), ps[i])] : ps \in [1..n -> RowParams]}
AllRowSeqs == UNION {RowSeqs(n, start) : n \in 1..MaxRows, start \in Starts}

\* ---------------------------------------------------------------- messages
NoMsg == [kind |-> "none"]
ReportPrefix == "Fehler beim Generieren des Reports"
StatusPrefix == "Fehler beim Laden des Status"
ChartPrefix == "Fehler beim Erstellen des Charts"
TelegramErrText == "telegram.error.TelegramError"
RenderErrText == "savefig failed"

\* f"<prefix>: {str(e)}"
ErrorMsg(prefix, e) == [kind |-> "error", prefix |-> prefix, text |-> e]

\* The templated report of generate_daily_report, built from the summary.
TemplateMsg(s) ==
    [kind |-> "template", date |-> s.date, total_solar |-> s.total_solar,
     savings |-> s.savings, battery_charged |-> s.battery_charged,
     battery_discharged |-> s.battery_discharged, peak_price |-> s.peak_price,
     peak_price_time |-> s.peak_price_time,
     sun_hours_tomorrow |-> Fmt1(s.sun_hours_tomorrow)]

\* The narrator's text: opaque, fixed by the prompt it was given.
NarrationMsg(prompt) == [kind |-> "narration", prompt |-> prompt]

\* One call made by a handler or by the script, with its outcome.
Ev(ev, ok, msg) == [ev |-> ev, ok |-> ok, msg |-> msg]

\* ---------------------------------------------------------------- /daily
\* generate_daily_report's except branch: the error message, no chart.
ErrorReportStaleChart(e) ==
    [message |-> ErrorMsg(ReportPrefix, e), chart_path |-> "telegram_chart.png"]
ErrorReport(e) == [message |-> ErrorMsg(ReportPrefix, e), chart_path |-> "None"]

\* generate_daily_report on the data file, under the outcomes of the weather
\* lookup w, of the narrator call and of the chart rendering: the report it
\* returns, the calls it made, and the summary and weather summary it built.
GenerateDailyReport(rs, miss, fok, key, w, narrOk, chartOk) ==
    LET le == LoadError(rs, miss, fok)
        weatherEv == <<Ev("weather", w.ok, NoMsg)>>
        sm == BotCompute(rs, miss, BotSunHoursTomorrow(w))
        ws == BotWeatherSummary(w)
        prompt == [weather |-> PromptWeather(ws), summary |-> sm.summary]
        text == IF key /\ narrOk THEN NarrationMsg(prompt) ELSE TemplateMsg(sm.summary)
        narrEv == IF key THEN <<Ev("narrator", narrOk, NoMsg)>> ELSE <<>>
        renderEv == <<Ev("render", chartOk, NoMsg)>>
    IN  IF le # "none"
        THEN [report |-> ErrorReport(le), events |-> <<>>,
              computed |-> None, weather |-> None]
        ELSE IF sm.status = "error"
        THEN [report |-> ErrorReport(sm.error), events |-> weatherEv,
              computed |-> sm, weather |-> ws]
        ELSE IF PromptError(ws) # "none"
        THEN [report |-> ErrorReport(PromptError(ws)), events |-> weatherEv,
              computed |-> sm, weather |-> ws]
        ELSE IF ~chartOk
        THEN [report |-> ErrorReport(RenderErrText),
              events |-> weatherEv \o narrEv \o renderEv,
              computed |-> sm, weather |-> ws]
        ELSE [report |-> [message |-> text, chart_path |-> "telegram_chart.png"],
              events |-> weatherEv \o narrEv \o renderEv,
              computed |-> sm, weather |-> ws]

\* A mutant of daily_report sends the report a second time when the first
\* delivery failed.
DailyLogRetry(g, caOk, replyOk, photoOk, errReplyOk) ==
    LET errReply == <<Ev("reply_text", errReplyOk, ErrorMsg(ReportPrefix, TelegramErrText))>>
        sent == <<Ev("chat_action", TRUE, NoMsg)>> \o g.events
                    \o <<Ev("reply_text", replyOk, g.report.message)>>
    IN  IF ~caOk THEN <<Ev("chat_action", FALSE, NoMsg)>> \o errReply
        ELSE IF ~replyOk
        THEN sent \o <<Ev("reply_text", errReplyOk, g.report.message)>>
        ELSE IF g.report.chart_path = "None" THEN sent
        ELSE IF photoOk THEN sent \o <<Ev("send_photo", TRUE, NoMsg)>>
        ELSE sent \o <<Ev("send_photo", FALSE, NoMsg)>> \o errReply

\* daily_report: the calls it makes, given generate_daily_report's result g
\* and the outcomes of the typing action, of the report's reply, of the photo
\* and of the reply of the except branch.
DailyLog(g, caOk, replyOk, photoOk, errReplyOk) ==
    LET errReply == <<Ev("reply_text", errReplyOk, ErrorMsg(ReportPrefix, TelegramErrText))>>
        sent == <<Ev("chat_action", TRUE, NoMsg)>> \o g.events
                    \o <<Ev("reply_text", replyOk, g.report.message)>>
    IN  IF ~caOk THEN <<Ev("chat_action", FALSE, NoMsg)>> \o errReply
        ELSE IF ~replyOk THEN sent \o errReply
        ELSE IF g.report.chart_path = "None" THEN sent
        ELSE IF photoOk THEN sent \o <<Ev("send_photo", TRUE, NoMsg)>>
        ELSE sent \o <<Ev("send_photo", FALSE, NoMsg)>> \o errReply

\* ---------------------------------------------------------------- /status
StatusColumns == {"SOC_opt", "electricity_savings_step", "foreign_power_costs"}

\* The battery status text chosen from the last SOC_opt (q quarters).
BatteryStatus(q) ==
    IF 5 * q > 16 THEN "Voll geladen"
    ELSE IF q > 2 THEN "Gut geladen"
    ELSE IF 5 * q > 4 THEN "Teilweise geladen"
    ELSE "Fast leer"

\* status_command's message: the SOC in tenths of a percent, the savings in
\* hundredths, the prices in thousandths.
StatusMsg(rs) ==
    [kind |-> "status",
     current_soc |-> RoundHalfEven(rs[Len(rs)]["SOC_opt"] * 1000, 4),
     battery_status |-> BatteryStatus(rs[Len(rs)]["SOC_opt"]),
     total_savings |-> Round2(ColSum(rs, "electricity_savings_step")),
     current_price |-> RoundHalfEven(rs[Len(rs)]["foreign_power_costs"] * 1000, 4),
     peak_price |-> RoundHalfEven(ColMax(rs, "foreign_power_costs") * 1000, 4),
     peak_time |-> HHMM(rs[IdxMax(rs, "foreign_power_costs")]["timestamp"]),
     charged |-> rs[Len(rs)]["SOC_opt"] > 2]

\* The error of loading the file or of reading one of the columns cs.
DataError(rs, miss, fok, cs) ==
    IF LoadError(rs, miss, fok) # "none" THEN LoadError(rs, miss, fok)
    ELSE IF miss \in cs THEN KeyErrText(miss)
    ELSE "none"

StatusLog(rs, miss, fok, replyOk, errReplyOk) ==
    LET err == DataError(rs, miss, fok, StatusColumns)
    IN  IF err # "none"
        THEN <<Ev("reply_text", errReplyOk, ErrorMsg(StatusPrefix, err))>>
        ELSE IF replyOk THEN <<Ev("reply_text", TRUE, StatusMsg(rs))>>
        ELSE <<Ev("reply_text", FALSE, StatusMsg(rs)),
               Ev("reply_text", errReplyOk, ErrorMsg(StatusPrefix, TelegramErrText))>>

\* ---------------------------------------------------------------- /chart
ChartColumns ==
    {"pv_profile", "pv_utilized_kw_opt", "pv_to_battery_kw_opt",
     "battery_to_load_kw_opt", "SOC_opt"}

ChartLog(rs, miss, fok, caOk, chartOk, photoOk, errReplyOk) ==
    LET err == DataError(rs, miss, fok, ChartColumns)
        ca == <<Ev("chat_action", caOk, NoMsg)>>
        errReply(e) == <<Ev("reply_text", errReplyOk, ErrorMsg(ChartPrefix, e))>>
    IN  IF ~caOk THEN ca \o errReply(TelegramErrText)
        ELSE IF err # "none" THEN ca \o errReply(err)
        ELSE IF ~chartOk THEN ca \o <<Ev("render", FALSE, NoMsg)>> \o errReply(RenderErrText)
        ELSE IF photoOk
        THEN ca \o <<Ev("render", TRUE, NoMsg), Ev("send_photo", TRUE, NoMsg)>>
        ELSE ca \o <<Ev("render", TRUE, NoMsg), Ev("send_photo", FALSE, NoMsg)>>
                \o errReply(TelegramErrText)

\* ---------------------------------------------------------------- free text
TextColumns ==
    {"SOC_opt", "electricity_savings_step", "pv_profile", "pv_to_battery_kw_opt",
     "grid_to_battery_kw_opt", "battery_to_load_kw_opt", "battery_to_grid_kw_opt",
     "foreign_power_costs", "grid_import_kw_opt", "gross_load"}

NoticeMsg == [kind |-> "missing_key_notice"]
ApologyMsg == [kind |-> "apology"]

\* handle_message: weather_info, with the fallback values of the except branch.
TextWeatherInfo(w) ==
    IF w.ok
    THEN [sun_hours_today |-> SunHours(w.today), sun_hours_tomorrow |-> SunHours(w.tomorrow),
          max_temp_today |-> w.max_temp_today]
    ELSE [sun_hours_today |-> 18000, sun_hours_tomorrow |-> 21600,
          max_temp_today |-> JsonNum(200)]

\* handle_message: context_data as the prompt formats it.
TextContext(rs) ==
    [current_soc |-> RoundHalfEven(rs[Len(rs)]["SOC_opt"] * 1000, 4),
     total_savings |-> Round2(ColSum(rs, "electricity_savings_step")),
     solar_production |-> Round1(ColSum(rs, "pv_profile")),
     battery_charged |->
        Round1(ColSum(rs, "pv_to_battery_kw_opt") + ColSum(rs, "grid_to_battery_kw_opt")),
     battery_discharged |->
        Round1(ColSum(rs, "battery_to_load_kw_opt") + ColSum(rs, "battery_to_grid_kw_opt")),
     peak_price |-> RoundHalfEven(ColMax(rs, "foreign_power_costs") * 1000, 4),
     peak_time |-> HHMM(rs[IdxMax(rs, "foreign_power_costs")]["timestamp"]),
     grid_dependence |->
        PctRound1(ColSum(rs, "grid_import_kw_opt"), ColSum(rs, "gross_load"))]

\* A mutant of the handler swallows the exception without replying.
TextLogSilent(rs, miss, fok, key, w, caOk, narrOk, replyOk, errReplyOk) ==
    LET err == DataError(rs, miss, fok, TextColumns)
        ca == <<Ev("chat_action", caOk, NoMsg)>>
        weatherEv == <<Ev("weather", w.ok, NoMsg)>>
        prompt == [weather |-> PromptWeather(TextWeatherInfo(w)),
                   context |-> TextContext(rs)]
        perr == PromptError(TextWeatherInfo(w))
    IN  IF ~caOk THEN ca
        ELSE IF LoadError(rs, miss, fok) # "none" THEN ca
        ELSE IF err # "none" THEN ca \o weatherEv
        ELSE IF perr # "none" THEN ca \o weatherEv
        ELSE IF ~key
        THEN ca \o weatherEv \o <<Ev("reply_text", replyOk, NoticeMsg)>>
        ELSE IF ~narrOk
        THEN ca \o weatherEv \o <<Ev("narrator", FALSE, NoMsg)>>
        ELSE ca \o weatherEv \o <<Ev("narrator", TRUE, NoMsg)>>
                \o <<Ev("reply_text", replyOk, NarrationMsg(prompt))>>

\* handle_message: the calls it makes.  The typing action is outside the try
\* block; every exception after it is answered with the apology text.
TextLog(rs, miss, fok, key, w, caOk, narrOk, replyOk, errReplyOk) ==
    LET err == DataError(rs, miss, fok, TextColumns)
        ca == <<Ev("chat_action", caOk, NoMsg)>>
        weatherEv == <<Ev("weather", w.ok, NoMsg)>>
        apology == <<Ev("reply_text", errReplyOk, ApologyMsg)>>
        prompt == [weather |-> PromptWeather(TextWeatherInfo(w)),
                   context |-> TextContext(rs)]
        perr == PromptError(TextWeatherInfo(w))
        reply(m) == IF replyOk THEN <<Ev("reply_text", TRUE, m)>>
                    ELSE <<Ev("reply_text", FALSE, m)>> \o apology
    IN  IF ~caOk THEN ca
        ELSE IF LoadError(rs, miss, fok) # "none" THEN ca \o apology
        ELSE IF err # "none" THEN ca \o weatherEv \o apology
        ELSE IF perr # "none" THEN ca \o weatherEv \o apology
        ELSE IF ~key THEN ca \o weatherEv \o reply(NoticeMsg)
        ELSE IF ~narrOk
        THEN ca \o weatherEv \o <<Ev("narrator", FALSE, NoMsg)>> \o apology
        ELSE ca \o weatherEv \o <<Ev("narrator", TRUE, NoMsg)>>
                \o reply(NarrationMsg(prompt))

\* ---------------------------------------------------------------- dataclean.py
MissingKeyText == "Missing ANTHROPIC_API_KEY environment variable"
NarratorErrText == "anthropic.APIError"
RequestsErrText == "requests.exceptions.ConnectionError"

\* An outcome of requests.post: a success status, an error status, or an
\* exception raised.
PostOutcomes == {"ok", "status", "raise"}

\* get_response on the history ms: the exception it raises, the history it
\* leaves and the narrator call it made.
GetResponse(ms, key, narrOk) ==
    IF ~key THEN [raised |-> MissingKeyText, messages |-> ms, events |-> <<>>]
    ELSE IF ~narrOk
    THEN [raised |-> NarratorErrText, messages |-> ms,
          events |-> <<Ev("narrator", FALSE, NoMsg)>>]
    ELSE [raised |-> "none", messages |-> Append(ms, "assistant"),
          events |-> <<Ev("narrator", TRUE, NoMsg)>>]

Crashed(e, ms, evs, sm) ==
    [spc |-> "crashed", crash |-> e, messages |-> ms, log |-> evs, summary |-> sm]

\* The script from loading the file to the second webhook post.  No call is
\* wrapped in a try block: the first exception ends the run.
ScriptMain(rs, miss, fok, key, narrOk, chartOk, textRes, imageRes) ==
    LET le == LoadError(rs, miss, fok)
        sm == ScriptCompute(rs, miss)
        msg == NarrationMsg([summary |-> sm.summary])
        resp == GetResponse(<<"user">>, key, narrOk)
        narr == resp.events
        render == <<Ev("render", chartOk, NoMsg)>>
        text == <<Ev("post_text", textRes = "ok", msg)>>
        image == <<Ev("post_image", imageRes = "ok", NoMsg)>>
    IN  IF le # "none" THEN Crashed(le, <<>>, <<>>, None)
        ELSE IF sm.status = "error" THEN Crashed(sm.error, <<>>, <<>>, sm)
        ELSE IF resp.raised # "none" THEN Crashed(resp.raised, resp.messages, narr, sm)
        ELSE IF ~chartOk
        THEN Crashed(RenderErrText, resp.messages, narr \o render, sm)
        ELSE IF textRes = "raise"
        THEN Crashed(RequestsErrText, resp.messages, narr \o render \o text, sm)
        ELSE IF imageRes = "raise"
        THEN Crashed(RequestsErrText, resp.messages,
                     narr \o render \o text \o image, sm)
        ELSE [spc |-> "loop", crash |-> "none", messages |-> resp.messages,
              log |-> narr \o render \o text \o image, summary |-> sm]

\* The lines typed at the follow-up prompt, each as the sequence of its
\* characters; NoLine stands for follow_up before the first input() returned.
NoLine == <<"None">>
FollowUpInputs ==
    {<<"e", "x", "i", "t">>, <<"Q", "U", "I", "T">>, <<"E", "x", "i", "t">>,
     <<"Q", "u", "i", "t">>,
     <<"h", "o", "w", " ", "m", "u", "c", "h", " ", "d", "i", "d", " ", "I", " ",
       "s", "a", "v", "e", "?">>}

\* str.lower(): every upper-case letter is replaced by its lower-case letter,
\* every other character is kept.
UpperCase ==
    <<"A", "B", "C", "D", "E", "F", "G", "H", "I", "J", "K", "L", "M",
      "N", "O", "P", "Q", "R", "S", "T", "U", "V", "W", "X", "Y", "Z">>
LowerCase ==
    <<"a", "b", "c", "d", "e", "f", "g", "h", "i", "j", "k", "l", "m",
      "n", "o", "p", "q", "r", "s", "t", "u", "v", "w", "x", "y", "z">>
LowerChar(c) ==
    IF \E i \in 1..Len(UpperCase) : UpperCase[i] = c
    THEN LowerCase[CHOOSE i \in 1..Len(UpperCase) : UpperCase[i] = c]
    ELSE c
Lower(x) == [i \in 1..Len(x) |-> LowerChar(x[i])]

\* input() at end of file.
EOFErrText == "EOF when reading a line"

\* ---------------------------------------------------------------- computing
\* The state of the bot after __init__ and of the script before its first line.
NoUpdate == [kind |-> "none", joined |-> FALSE, state |-> "done"]
Idle ==
    /\ daily_cache = <<>>
    /\ last_generated_date = "None"
    /\ queue = <<>>
    /\ cur = NoUpdate
    /\ received = 0
    /\ redundant = FALSE
    /\ log = <<>>
    /\ plan = <<>>
    /\ weather_json = None
    /\ spc = "start"
    /\ crash = "none"
    /\ messages = <<>>
    /\ follow_up = NoLine

\* The summary computation applied to drawn rows: by two runs of the
\* script, and by the bot, again and again, under any outcome of its weather
\* lookup.
\* The columns a frame may lack when the summary is built (one-row frames
\* only, as the KeyError does not depend on the rows).
ComputeMissing == {"none", "gross_load", "SOC_opt"}
InitCompute ==
    /\ rows \in AllRowSeqs
    /\ missing \in IF Len(rows) = 1 THEN ComputeMissing ELSE {"none"}
    /\ fileOk = TRUE
    /\ apiKey = TRUE
    /\ mode = "compute"
    /\ scriptSummary = None
    /\ scriptPrev = None
    /\ botSummary = None
    /\ botPrev = None
    /\ botWeather = None
    /\ Idle

ComputeScript ==
    /\ mode = "compute"
    /\ scriptPrev = None
    /\ scriptSummary' = ScriptCompute(rows, missing)
    /\ scriptPrev' = scriptSummary
    /\ UNCHANGED <<envVars, botSummary, botPrev, botWeather>>
    /\ UNCHANGED <<cacheVars, botVars, scriptVars, handlerVars, log>>

ComputeBot ==
    /\ mode = "compute"
    /\ \E w \in WeatherOutcomes :
        /\ botSummary' = BotCompute(rows, missing, BotSunHoursTomorrow(w))
        /\ botWeather' = BotWeatherSummary(w)
    /\ botPrev' = botSummary
    /\ UNCHANGED <<envVars, scriptSummary, scriptPrev>>
    /\ UNCHANGED <<cacheVars, botVars, scriptVars, handlerVars, log>>

vars == <<envVars, computeVars, cacheVars, botVars, scriptVars, handlerVars, log>>
NextCompute == ComputeScript \/ ComputeBot
SpecCompute == InitCompute /\ [][NextCompute]_vars

\* ---------------------------------------------------------------- bounds
MaxUpdates == 2
MaxFollowUps == 2

\* ---------------------------------------------------------------- the programs
\* The states of data/day1.json the programs are run on: a day of two rows,
\* a day whose loads are all zero and whose prices tie, the same day with a
\* column absent, an empty array, and no file.
GoodRows == <<MkRow(450, <<3, 2, 3, 2>>), MkRow(510, <<0, -1, 3, 2>>)>>
ZeroLoadRows == <<MkRow(450, <<3, 2, 0, 0>>), MkRow(510, <<0, 2, 0, 0>>)>>
DataFiles ==
    {[rows |-> GoodRows, missing |-> "none", fileOk |-> TRUE],
     [rows |-> ZeroLoadRows, missing |-> "none", fileOk |-> TRUE],
     [rows |-> GoodRows, missing |-> "gross_load", fileOk |-> TRUE],
     [rows |-> GoodRows, missing |-> "SOC_opt", fileOk |-> TRUE],
     [rows |-> <<>>, missing |-> "none", fileOk |-> TRUE],
     [rows |-> <<>>, missing |-> "none", fileOk |-> FALSE]}

\* The updates the bot receives: the six kinds that __init__ registers a
\* handler for, and "other" for the updates that match no handler (unknown
\* commands, messages without text), which the application drops.
UpdateKinds == {"start", "help", "daily", "status", "chart", "text", "other"}

Init ==
    /\ \E d \in DataFiles : rows = d.rows /\ missing = d.missing /\ fileOk = d.fileOk
    /\ apiKey \in BOOLEAN
    /\ mode \in {"bot", "script"}
    /\ scriptSummary = None
    /\ scriptPrev = None
    /\ botSummary = None
    /\ botPrev = None
    /\ botWeather = None
    /\ Idle

\* A handler was entered and has not returned.
InHandler == cur.state \in {"running", "awaiting", "blocked"}

\* A /daily update is pending or its handler is running.
DailyInFlight ==
    \/ cur.kind = "daily" /\ InHandler
    \/ \E i \in 1..Len(queue) : queue[i].kind = "daily"

\* An update arrives while the handler of an earlier one may still run.
Receive ==
    /\ mode = "bot"
    /\ received < MaxUpdates
    /\ \E k \in UpdateKinds :
        queue' = Append(queue, [kind |-> k, joined |-> (k = "daily" /\ DailyInFlight),
                                state |-> "queued"])
    /\ received' = received + 1
    /\ UNCHANGED <<envVars, computeVars, cacheVars, cur, redundant, scriptVars,
                   handlerVars, log>>

\* The application takes the next update once the previous handler returned:
\* updates are processed one at a time.
Dispatch ==
    /\ mode = "bot"
    /\ cur.state = "done"
    /\ queue # <<>>
    /\ cur' = [Head(queue) EXCEPT !.state = "running"]
    /\ queue' = Tail(queue)
    /\ log' = <<>>
    /\ plan' = <<>>
    /\ weather_json' = None
    /\ UNCHANGED <<envVars, computeVars, cacheVars, received, redundant, scriptVars>>

Running(k) == mode = "bot" /\ cur.kind = k /\ cur.state = "running"

\* The calls to Telegram are awaited: the handler returns to the event loop
\* while one is in flight.  The weather lookup, the narrator call and the
\* chart rendering are plain calls that the handler runs through.
Awaited == {"chat_action", "reply_text", "send_photo"}

\* Of the calls L still to make, with the first in flight: the number made
\* when the handler next returns to the event loop or ends.
Stretch(L) ==
    IF L = <<>> THEN 0
    ELSE CHOOSE n \in 1..Len(L) :
            /\ n = Len(L) \/ L[n + 1].ev \in Awaited
            /\ \A m \in 2..n : L[m].ev \notin Awaited

\* The handler runs on from the calls done with the calls L to make, up to
\* its next await or its end.
RunOn(done, L) ==
    /\ log' = done \o SubSeq(L, 1, Stretch(L))
    /\ plan' = SubSeq(L, Stretch(L) + 1, Len(L))
    /\ cur' = [cur EXCEPT !.state = IF Stretch(L) = Len(L) THEN "done" ELSE "awaiting"]

\* start_command and help_command: one reply, outside any try block.
StartMsg == [kind |-> "welcome"]
HelpMsg == [kind |-> "help"]
HandleStartWith(T) ==
    /\ Running("start")
    /\ \E replyOk \in T : RunOn(<<>>, <<Ev("reply_text", replyOk, StartMsg)>>)
    /\ UNCHANGED <<envVars, computeVars, cacheVars, queue, received, redundant,
                   scriptVars, weather_json>>

HandleHelpWith(T) ==
    /\ Running("help")
    /\ \E replyOk \in T : RunOn(<<>>, <<Ev("reply_text", replyOk, HelpMsg)>>)
    /\ UNCHANGED <<envVars, computeVars, cacheVars, queue, received, redundant,
                   scriptVars, weather_json>>

\* An update that matches no handler is dropped: no call is made.
DropUnhandled ==
    /\ Running("other")
    /\ RunOn(<<>>, <<>>)
    /\ UNCHANGED <<envVars, computeVars, cacheVars, queue, received, redundant,
                   scriptVars, weather_json>>

\* daily_report, with the outcomes of the calls to Telegram that send text
\* drawn from T, up to its first return to the event loop.  Neither the
\* handler nor generate_daily_report reads or writes daily_cache or
\* last_generated_date.
HandleDailyWith(T) ==
    /\ Running("daily")
    /\ \E w \in WeatherOutcomes : \E narrOk, chartOk, photoOk \in BOOLEAN :
       \E caOk, replyOk, errReplyOk \in T :
        LET g == GenerateDailyReport(rows, missing, fileOk, apiKey, w, narrOk, chartOk)
            computed == caOk /\ g.computed # None
        IN  /\ RunOn(<<>>, DailyLog(g, caOk, replyOk, photoOk, errReplyOk))
            /\ weather_json' = IF computed THEN w ELSE None
            /\ botSummary' = IF computed THEN g.computed ELSE botSummary
            /\ botPrev' = IF computed THEN botSummary ELSE botPrev
            /\ botWeather' = IF computed THEN g.weather ELSE botWeather
            /\ redundant' = (redundant \/ (computed /\ cur.joined))
    /\ UNCHANGED <<envVars, scriptSummary, scriptPrev, cacheVars, queue, received,
                   scriptVars>>

HandleStatusWith(T) ==
    /\ Running("status")
    /\ \E replyOk, errReplyOk \in T :
        RunOn(<<>>, StatusLog(rows, missing, fileOk, replyOk, errReplyOk))
    /\ UNCHANGED <<envVars, computeVars, cacheVars, queue, received, redundant,
                   scriptVars, weather_json>>

HandleChartWith(T) ==
    /\ Running("chart")
    /\ \E chartOk, photoOk \in BOOLEAN : \E caOk, errReplyOk \in T :
        RunOn(<<>>, ChartLog(rows, missing, fileOk, caOk, chartOk, photoOk, errReplyOk))
    /\ UNCHANGED <<envVars, computeVars, cacheVars, queue, received, redundant,
                   scriptVars, weather_json>>

HandleTextWith(T) ==
    /\ Running("text")
    /\ \E w \in WeatherOutcomes : \E narrOk \in BOOLEAN :
       \E caOk, replyOk, errReplyOk \in T :
        /\ RunOn(<<>>, TextLog(rows, missing, fileOk, apiKey, w, caOk, narrOk,
                               replyOk, errReplyOk))
        /\ weather_json' =
            IF caOk /\ LoadError(rows, missing, fileOk) = "none" THEN w ELSE None
    /\ UNCHANGED <<envVars, computeVars, cacheVars, queue, received, redundant, scriptVars>>

\* requests.get is called without a timeout and is not awaited: when the
\* weather service accepts the request and never answers, the handler stays
\* in the call, and with it the event loop, which handles no other update.
\* The lookup is reached once the typing action was sent and the file loaded.
LookupHangs ==
    /\ Running("daily") \/ Running("text")
    /\ LoadError(rows, missing, fileOk) = "none"
    /\ log' = <<Ev("chat_action", TRUE, NoMsg)>>
    /\ cur' = [cur EXCEPT !.state = "blocked"]
    /\ UNCHANGED <<envVars, computeVars, cacheVars, queue, received, redundant,
                   scriptVars, handlerVars>>

\* The call a handler awaited completes and the handler runs on.
Resume ==
    /\ mode = "bot"
    /\ cur.state = "awaiting"
    /\ RunOn(log, plan)
    /\ UNCHANGED <<envVars, computeVars, cacheVars, queue, received, redundant,
                   scriptVars, weather_json>>

HandleStart == HandleStartWith(BOOLEAN)
HandleHelp == HandleHelpWith(BOOLEAN)
HandleDaily == HandleDailyWith(BOOLEAN)
HandleStatus == HandleStatusWith(BOOLEAN)
HandleChart == HandleChartWith(BOOLEAN)
HandleText == HandleTextWith(BOOLEAN)

\* dataclean.py up to the follow-up loop.
ScriptRun ==
    /\ mode = "script"
    /\ spc = "start"
    /\ \E narrOk, chartOk \in BOOLEAN : \E textRes, imageRes \in PostOutcomes :
        LET r == ScriptMain(rows, missing, fileOk, apiKey, narrOk, chartOk, textRes, imageRes)
        IN  /\ spc' = r.spc
            /\ crash' = r.crash
            /\ messages' = r.messages
            /\ log' = r.log
            /\ scriptSummary' = r.summary
    /\ UNCHANGED <<envVars, scriptPrev, botSummary, botPrev, botWeather,
                   cacheVars, botVars, follow_up, handlerVars>>

\* One turn of the follow-up loop: input() raises EOFError at end of file,
\* which ends the script; exit or quit in any letter case leaves the loop; any
\* other line is appended and answered by get_response.
ScriptFollowUp ==
    /\ mode = "script"
    /\ spc = "loop"
    /\ \/ /\ spc' = "crashed"
          /\ crash' = EOFErrText
          /\ UNCHANGED <<follow_up, messages, log>>
       \/ \E line \in FollowUpInputs : \E narrOk \in BOOLEAN :
            IF Lower(line) \in {<<"e", "x", "i", "t">>, <<"q", "u", "i", "t">>}
            THEN /\ spc' = "done"
                 /\ follow_up' = line
                 /\ UNCHANGED <<crash, messages, log>>
            ELSE LET resp == GetResponse(Append(messages, "user"), apiKey, narrOk)
                 IN  /\ Len(messages) < 2 + 2 * MaxFollowUps
                     /\ follow_up' = line
                     /\ messages' = resp.messages
                     /\ log' = log \o resp.events
                     /\ crash' = resp.raised
                     /\ spc' = IF resp.raised = "none" THEN "loop" ELSE "crashed"
    /\ UNCHANGED <<envVars, computeVars, cacheVars, botVars, handlerVars>>

Next ==
    \/ Receive
    \/ Dispatch
    \/ HandleStart
    \/ HandleHelp
    \/ DropUnhandled
    \/ LookupHangs
    \/ Resume
    \/ HandleDaily
    \/ HandleStatus
    \/ HandleChart
    \/ HandleText
    \/ ScriptRun
    \/ ScriptFollowUp
Spec == Init /\ [][Next]_vars

\* The bot alone, with every call that sends text to the chat succeeding and
\* with the application's loop running: a queued update is dispatched, and a
\* handler that was entered takes its steps, of which the weather lookup may
\* be one that never returns.
HandleStartReliable == HandleStartWith({TRUE})
HandleHelpReliable == HandleHelpWith({TRUE})
HandleDailyReliable == HandleDailyWith({TRUE})
HandleStatusReliable == HandleStatusWith({TRUE})
HandleChartReliable == HandleChartWith({TRUE})
HandleTextReliable == HandleTextWith({TRUE})
InitLive == Init /\ mode = "bot"
NextLive ==
    \/ Receive
    \/ Dispatch
    \/ HandleStartReliable
    \/ HandleHelpReliable
    \/ DropUnhandled
    \/ LookupHangs
    \/ Resume
    \/ HandleDailyReliable
    \/ HandleStatusReliable
    \/ HandleChartReliable
    \/ HandleTextReliable
SpecLive ==
    /\ InitLive
    /\ [][NextLive]_vars
    /\ WF_vars(Dispatch)
    /\ WF_vars(HandleStartReliable)
    /\ WF_vars(HandleHelpReliable)
    /\ WF_vars(DropUnhandled)
    /\ WF_vars(Resume)
    /\ WF_vars(HandleDailyReliable)
    /\ WF_vars(HandleStatusReliable)
    /\ WF_vars(HandleChartReliable)
    /\ WF_vars(HandleTextReliable)

\* ---------------------------------------------------------------- claims
\* The summaries computed so far.
Computed == {o \in {scriptSummary, botSummary, botPrev} : o.status = "ok"}
Abs(x) == IF x < 0 THEN 0 - x ELSE x

\* Row i is the first row of rs whose column c holds the value v.
IsFirstWith(rs, i, c, v) ==
    /\ rs[i][c] = v
    /\ \A j \in 1..(i - 1) : rs[j][c] # v
IsMaxOf(rs, c, v) ==
    (\E i \in 1..Len(rs) : rs[i][c] = v) /\ (\A j \in 1..Len(rs) : rs[j][c] <= v)
IsMinOf(rs, c, v) ==
    (\E i \in 1..Len(rs) : rs[i][c] = v) /\ (\A j \in 1..Len(rs) : rs[j][c] >= v)

\* C1: each time-of-day metric is the HH:MM of the first row, in timestamp
\* order, that holds the extremal value: peak_price_time of the maximal
\* price, cheap_price_time of the minimal price, sunniest_hour of the maximal
\* pv_profile.
C1_FirstExtremalRow ==
    \A o \in Computed :
        /\ \E i \in 1..Len(rows) : \E hi \in PriceVals :
            /\ IsMaxOf(rows, "foreign_power_costs", hi)
            /\ IsFirstWith(rows, i, "foreign_power_costs", hi)
            /\ o.summary.peak_price_time = HHMM(rows[i].timestamp)
        /\ \E j \in 1..Len(rows) : \E lo \in PriceVals :
            /\ IsMinOf(rows, "foreign_power_costs", lo)
            /\ IsFirstWith(rows, j, "foreign_power_costs", lo)
            /\ o.summary.cheap_price_time = HHMM(rows[j].timestamp)
        /\ \E k \in 1..Len(rows) : \E sun \in PvVals :
            /\ IsMaxOf(rows, "pv_profile", sun)
            /\ IsFirstWith(rows, k, "pv_profile", sun)
            /\ o.summary.sunniest_hour = HHMM(rows[k].timestamp)

\* C1 witness: two rows tie on the maximal price and on the maximal
\* pv_profile, and both entry points name the earlier one, 07:30.
C1_Witness ==
    /\ Len(rows) = 2
    /\ rows[1].foreign_power_costs = 2 /\ rows[2].foreign_power_costs = 2
    /\ rows[1].pv_profile = 3 /\ rows[2].pv_profile = 3
    /\ scriptSummary.status = "ok" /\ botSummary.status = "ok"
    /\ scriptSummary.summary.peak_price_time = "07:30"
    /\ botSummary.summary.sunniest_hour = "07:30"

\* C2 (as claimed): when the sum of gross_load or of net_load over the rows
\* is zero, the summary computation ends in the error DivisionByZeroMetric
\* and produces no summary mapping.
C2_ZeroDenominatorRaises ==
    \A o \in {scriptSummary, botSummary} :
        (/\ o # None
         /\ (ColSum(rows, "gross_load") = 0 \/ ColSum(rows, "net_load") = 0))
        => (o.status = "error" /\ o.error = "DivisionByZeroMetric")

\* v, in tenths of a percent, is num / den * 100 rounded to 1 decimal.
IsPctOf(x, num, den) ==
    /\ x.kind = "finite"
    /\ 2 * Abs(x.v * den - num * 1000) <= Abs(den)

\* C3 (as claimed): export_ratio_pct is 0.0 when the pv_profile sum is zero,
\* and the rounded ratio of the pv_to_grid_kw_opt sum to the pv_profile sum
\* whenever that sum is not zero.
C3_ExportRatioNonZero ==
    \A o \in Computed :
        LET pv == ColSum(rows, "pv_profile")
            ex == ColSum(rows, "pv_to_grid_kw_opt")
        IN  /\ pv = 0 => o.summary.export_ratio_pct = Finite(0)
            /\ pv # 0 => IsPctOf(o.summary.export_ratio_pct, ex, pv)

\* C3 (amended): export_ratio_pct is 0.0, and no error is raised, when the
\* pv_profile sum is zero or negative; it is the rounded ratio of the
\* pv_to_grid_kw_opt sum to the pv_profile sum when that sum is positive.
C3_ExportRatioPositive ==
    /\ \A o \in {scriptSummary, botSummary} : (o # None /\ missing = "none") => o.status = "ok"
    /\ \A o \in Computed :
        LET pv == ColSum(rows, "pv_profile")
            ex == ColSum(rows, "pv_to_grid_kw_opt")
        IN  /\ pv <= 0 => o.summary.export_ratio_pct = Finite(0)
            /\ pv > 0 => IsPctOf(o.summary.export_ratio_pct, ex, pv)

\* C3 witness: every pv_profile value is 0 and both entry points computed
\* an export ratio of 0.0.
C3_Witness ==
    /\ \A i \in 1..Len(rows) : rows[i].pv_profile = 0
    /\ Len(rows) = 2
    /\ scriptSummary.status = "ok" /\ botSummary.status = "ok"
    /\ scriptSummary.summary.export_ratio_pct = Finite(0)
    /\ botSummary.summary.export_ratio_pct = Finite(0)

\* x, in tenths, is q quarters rounded to 1 decimal.
IsRound1Of(x, q) == Abs(4 * x - 10 * q) <= 2
\* x, in hundredths, is q quarters rounded to 2 decimals.
IsRound2Of(x, q) == 4 * x = 100 * q

\* The numeric values of a summary mapping are rounded as the table says.
RoundedAsTable(s) ==
    /\ IsRound1Of(s.total_solar, ColSum(rows, "pv_profile"))
    /\ IsRound1Of(s.solar_self_consumed, ColSum(rows, "pv_utilized_kw_opt"))
    /\ IsRound1Of(s.solar_exported, ColSum(rows, "pv_to_grid_kw_opt"))
    /\ IsRound1Of(s.battery_charged,
                  ColSum(rows, "pv_to_battery_kw_opt") + ColSum(rows, "grid_to_battery_kw_opt"))
    /\ IsRound1Of(s.battery_discharged,
                  ColSum(rows, "battery_to_load_kw_opt") + ColSum(rows, "battery_to_grid_kw_opt"))
    /\ IsRound1Of(s.grid_import, ColSum(rows, "grid_import_kw_opt"))
    /\ IsRound1Of(s.grid_export, ColSum(rows, "grid_export_kw_opt"))
    /\ IsRound2Of(s.savings,
                  ColSum(rows, "electricity_savings_step")
                  + ColSum(rows, "feed_in_revenue_delta_step"))
    /\ \E hi, lo \in PriceVals :
        /\ IsMaxOf(rows, "foreign_power_costs", hi) /\ IsRound2Of(s.peak_price, hi)
        /\ IsMinOf(rows, "foreign_power_costs", lo) /\ IsRound2Of(s.cheap_price, lo)
    /\ \E hi, lo \in 0..4 :
        /\ IsMaxOf(rows, "SOC_opt", hi) /\ IsMinOf(rows, "SOC_opt", lo)
        /\ IsRound2Of(s.soc_swing, hi - lo)
    /\ ColSum(rows, "gross_load") # 0 =>
        /\ IsPctOf(s.solar_coverage_pct, ColSum(rows, "pv_utilized_kw_opt"),
                   ColSum(rows, "gross_load"))
        /\ IsPctOf(s.grid_dependence_pct, ColSum(rows, "grid_import_kw_opt"),
                   ColSum(rows, "gross_load"))
    /\ ColSum(rows, "net_load") # 0 =>
        IsPctOf(s.battery_contribution_pct,
                ColSum(rows, "battery_to_load_kw_opt") + ColSum(rows, "battery_to_grid_kw_opt"),
                ColSum(rows, "net_load"))
    /\ ColSum(rows, "pv_profile") > 0 =>
        IsPctOf(s.export_ratio_pct, ColSum(rows, "pv_to_grid_kw_opt"),
                ColSum(rows, "pv_profile"))

\* C7 (as claimed): two computations of the summary on the same rows give
\* identical mappings, in dataclean.py and in generate_daily_report.
C7_SameMappingTwice ==
    /\ (scriptPrev.status = "ok" /\ scriptSummary.status = "ok")
        => scriptPrev = scriptSummary
    /\ (botPrev.status = "ok" /\ botSummary.status = "ok") => botPrev = botSummary

\* The values of the table's metrics in the mapping s are those the rows
\* determine: the date of the first row, the rounded sums, extremes and
\* ratios, the times of day of the first extremal rows, and the non-finite
\* ratio of a zero denominator.
TimeOfFirstMax(t, c) ==
    \E i \in 1..Len(rows) :
        /\ IsMaxOf(rows, c, rows[i][c])
        /\ IsFirstWith(rows, i, c, rows[i][c])
        /\ t = HHMM(rows[i].timestamp)
TimeOfFirstMin(t, c) ==
    \E i \in 1..Len(rows) :
        /\ IsMinOf(rows, c, rows[i][c])
        /\ IsFirstWith(rows, i, c, rows[i][c])
        /\ t = HHMM(rows[i].timestamp)
IsRatioOfZero(x, num) ==
    x.kind = IF num > 0 THEN "inf" ELSE IF num < 0 THEN "-inf" ELSE "nan"
DeterminedByRows(s) ==
    /\ s.date = DateStr(rows[1].timestamp)
    /\ RoundedAsTable(s)
    /\ TimeOfFirstMax(s.peak_price_time, "foreign_power_costs")
    /\ TimeOfFirstMin(s.cheap_price_time, "foreign_power_costs")
    /\ TimeOfFirstMax(s.sunniest_hour, "pv_profile")
    /\ ColSum(rows, "gross_load") = 0 =>
        /\ IsRatioOfZero(s.solar_coverage_pct, ColSum(rows, "pv_utilized_kw_opt"))
        /\ IsRatioOfZero(s.grid_dependence_pct, ColSum(rows, "grid_import_kw_opt"))
    /\ ColSum(rows, "net_load") = 0 =>
        IsRatioOfZero(s.battery_contribution_pct,
                      ColSum(rows, "battery_to_load_kw_opt")
                      + ColSum(rows, "battery_to_grid_kw_opt"))
    /\ ColSum(rows, "pv_profile") <= 0 => s.export_ratio_pct = Finite(0)

\* C7 (amended): every computation of the summary, in dataclean.py and in
\* generate_daily_report, gives the 19 metrics of the table the values the
\* rows determine, so two computations on the same rows agree on them, and
\* two runs of dataclean.py give identical outcomes (the same mapping, or the
\* same KeyError); generate_daily_report's mapping also holds
\* sun_hours_tomorrow, which is the weather lookup's value or 5.0 h when the
\* lookup failed, and two of its mappings are identical exactly when those
\* values agree.  (The mapping of an earlier computation was the latest one
\* in an earlier state, where its values were compared with the rows.)
C7_SameTableMetricsTwice ==
    /\ \A o \in {scriptSummary, botSummary} :
        o.status = "ok" => DeterminedByRows(o.summary)
    /\ scriptPrev # None => scriptPrev = scriptSummary
    /\ botSummary.status = "ok" =>
        botSummary.summary.sun_hours_tomorrow
            \in {botWeather.sun_hours_tomorrow, BotSunHoursTomorrow([ok |-> FALSE])}
    /\ (botPrev.status = "ok" /\ botSummary.status = "ok") =>
        /\ \A k \in TableKeys : botPrev.summary[k] = botSummary.summary[k]
        /\ botPrev = botSummary
            <=> botPrev.summary.sun_hours_tomorrow = botSummary.summary.sun_hours_tomorrow

\* C7 witness: the script computed the summary twice and so did the bot,
\* under weather lookups that gave different sun hours; the script's two
\* mappings are one, the bot's two differ in sun_hours_tomorrow alone.
C7_Witness ==
    /\ scriptPrev.status = "ok" /\ scriptSummary.status = "ok"
    /\ botPrev.status = "ok" /\ botSummary.status = "ok"
    /\ botPrev.summary.sun_hours_tomorrow # botSummary.summary.sun_hours_tomorrow
    /\ botPrev # botSummary

\* C8 (as claimed): the mapping of each entry point has exactly the metric
\* names of the table, no key missing and no extra key.
C8_ExactlyTableKeys ==
    \A o \in Computed : DOMAIN o.summary = TableKeys

\* C8 (amended): the mapping of dataclean.py has exactly the metric names of
\* the table; the mapping of generate_daily_report has those and the one extra
\* key sun_hours_tomorrow; every numeric value with a finite result is rounded
\* as the table specifies.
C8_TableKeysAndSunHours ==
    /\ scriptSummary.status = "ok" =>
        /\ DOMAIN scriptSummary.summary = TableKeys
        /\ RoundedAsTable(scriptSummary.summary)
    /\ botSummary.status = "ok" =>
        /\ DOMAIN botSummary.summary = TableKeys \cup {"sun_hours_tomorrow"}
        /\ RoundedAsTable(botSummary.summary)

\* C8 witness: both entry points produced a mapping from rows whose sums are
\* not multiples of 0.1 and whose percentages are finite.
C8_Witness ==
    /\ scriptSummary.status = "ok" /\ botSummary.status = "ok"
    /\ ColSum(rows, "pv_profile") = 3
    /\ ColSum(rows, "gross_load") = 6
    /\ ColSum(rows, "net_load") = 2
    /\ scriptSummary.summary.total_solar = 8
    /\ botSummary.summary.total_solar = 8

\* ---------------------------------------------------------------- handlers' claims
Done(k) == mode = "bot" /\ cur.kind = k /\ cur.state = "done"
Calls(ev) == SelectSeq(log, LAMBDA e : e.ev = ev)
Made(ev) == Calls(ev) # <<>>
Failed(ev) == \E i \in 1..Len(log) : log[i].ev = ev /\ ~log[i].ok
Succeeded(ev) == \E i \in 1..Len(log) : log[i].ev = ev /\ log[i].ok

\* The error that loading the rows or computing the summary ends in.
SummaryError == DataError(rows, missing, fileOk, Columns)

\* The weather lookup of the handler returned null temperatures, on which
\* the formatting of the prompt raises.
WeatherNulls ==
    weather_json # None /\ weather_json.ok /\ weather_json.max_temp_today.null

\* generate_daily_report ran and the narrator was unavailable to it.
BotNarratorFailed ==
    /\ Done("daily")
    /\ Succeeded("chat_action")
    /\ SummaryError = "none"
    /\ ~WeatherNulls
    /\ (~apiKey \/ Failed("narrator"))

\* The script reached its first get_response and the narrator was unavailable.
ScriptNarratorFailed ==
    /\ mode = "script"
    /\ spc # "start"
    /\ SummaryError = "none"
    /\ (~apiKey \/ (log # <<>> /\ log[1].ev = "narrator" /\ ~log[1].ok))

\* C4 (as claimed): when the narrator call fails, the /daily path and the
\* dataclean.py script both continue and emit a templated text built from the
\* summary.
C4_NarratorFailureFallsBack ==
    /\ BotNarratorFailed =>
        /\ Made("render")
        /\ Succeeded("render") => Calls("reply_text")[1].msg.kind = "template"
    /\ ScriptNarratorFailed =>
        /\ spc # "crashed"
        /\ Made("post_text") /\ Calls("post_text")[1].msg.kind = "template"

\* C5 (as claimed): in the /daily handler and in the script, the image
\* delivery is attempted when the delivery of the report text failed, and the
\* text delivery is attempted when the image delivery failed.
C5_IndependentDeliveries ==
    /\ (Done("daily") /\ Succeeded("render") /\ ~Calls("reply_text")[1].ok)
        => Made("send_photo")
    /\ (Done("daily") /\ Failed("send_photo")) => Made("reply_text")
    /\ (mode = "script" /\ Failed("post_text")) => Made("post_image")
    /\ (mode = "script" /\ Failed("post_image")) => Made("post_text")

\* C6 (as claimed): a /daily request that arrives while another /daily
\* request is pending or in flight never computes the summary again, and no
\* handler runs while another is in flight.
C6_NoRedundantRecompute ==
    /\ ~redundant
    /\ InHandler => \A i \in 1..Len(queue) : queue[i].state = "queued"

\* C9: when loading the rows or computing the summary fails, /daily calls no
\* narrator, renders and sends no chart, and replies with the error message
\* that carries the exception's text unchanged, and nothing follows a
\* delivered error message; the script ends with that exception at once, with
\* no narrator call, no chart and no post.
C9_DataErrorsAreFatal ==
    /\ (Done("daily") /\ Succeeded("chat_action") /\ SummaryError # "none") =>
        /\ ~Made("narrator") /\ ~Made("render") /\ ~Made("send_photo")
        /\ Made("reply_text")
        /\ Calls("reply_text")[1].msg =
              [kind |-> "error", prefix |-> ReportPrefix, text |-> SummaryError]
        /\ Calls("reply_text")[1].ok => Len(Calls("reply_text")) = 1
        /\ \A i \in 1..Len(log) : log[i].msg.kind \notin {"template", "narration"}
    /\ (mode = "script" /\ spc # "start" /\ SummaryError # "none") =>
        /\ spc = "crashed"
        /\ crash = SummaryError
        /\ log = <<>>
        /\ messages = <<>>

\* C9 witness: gross_load is absent from the file, /daily ran, and the one
\* reply delivered is the error message with the KeyError's text.
C9_Witness ==
    /\ Done("daily")
    /\ missing = "gross_load"
    /\ Len(log) = 3
    /\ log[2].ev = "weather"
    /\ log[3] = [ev |-> "reply_text", ok |-> TRUE,
                 msg |-> [kind |-> "error", prefix |-> ReportPrefix,
                          text |-> "'gross_load'"]]

\* The update being handled was answered: a text or a photo was delivered.
Replied == Succeeded("reply_text") \/ Succeeded("send_photo")
Pending == queue # <<>> \/ InHandler
Requests == {"daily", "status", "chart", "text"}

\* C10 (as claimed): with the calls that send text to the chat succeeding,
\* every update received is eventually handled, and a handled /daily,
\* /status, /chart or free-text update has at least one delivered reply
\* whatever the weather lookup, the narrator and the photo delivery did; a
\* failed weather lookup or narrator call does not end the request: the
\* handler goes on with fallback values or a templated text, to the chart in
\* /daily and to an answer other than the apology in free-text chat.
C10_EveryRequestAnswered ==
    /\ [](cur.state = "done" /\ cur.kind \in Requests => Replied)
    /\ []((Done("daily") /\ SummaryError = "none" /\ Failed("weather"))
            => Made("render"))
    /\ []((Done("daily") /\ SummaryError = "none" /\ Failed("narrator"))
            => Made("render"))
    /\ []((Done("text") /\ Failed("weather")) => Made("reply_text"))
    /\ []((Done("text") /\ Failed("narrator"))
            => \A i \in 1..Len(log) : log[i].msg # ApologyMsg)
    /\ (Pending ~> (queue = <<>> /\ cur.state = "done"))

\* The deliveries of the two programs: the webhook posts of the script, and
\* the report text and the photo of /daily.
Deliveries == {"post_text", "post_image", "reply_text", "send_photo"}

\* C11: in a run of the script and in the handling of a /daily update, each
\* delivery is attempted at most once: the text post, the image post and the
\* photo occur at most once, no text is sent twice, and a failed delivery of
\* /daily is followed by the one error reply that reports it and by nothing
\* else.
C11_NoRetry ==
    (mode = "script" \/ Done("daily")) =>
        /\ Len(Calls("post_text")) <= 1
        /\ Len(Calls("post_image")) <= 1
        /\ Len(Calls("send_photo")) <= 1
        /\ \A i, j \in 1..Len(log) :
            (i < j /\ log[i].ev \in Deliveries /\ log[i].ev = log[j].ev)
                => log[i].msg # log[j].msg
        /\ \A i \in 1..Len(log) :
            (Done("daily") /\ log[i].ev \in Deliveries /\ ~log[i].ok /\ i < Len(log))
                => /\ Len(log) = i + 1
                   /\ log[i + 1].ev = "reply_text"
                   /\ log[i + 1].msg = [kind |-> "error", prefix |-> ReportPrefix,
                                        text |-> TelegramErrText]

\* C11 witness: the delivery of the /daily report text failed; the error
\* reply was sent and the report was not sent again.
C11_Witness ==
    /\ Done("daily")
    /\ Len(Calls("reply_text")) = 2
    /\ Calls("reply_text")[1].msg.kind \in {"template", "narration"}
    /\ ~Calls("reply_text")[1].ok
    /\ Calls("reply_text")[2].msg.kind = "error"
    /\ ~Made("send_photo")

\* C12: soc_swing is never negative for a non-empty row sequence, in either
\* copy of the summary: it is the rounded difference of the largest and the
\* smallest SOC_opt of the same rows.
C12_SocSwingNonNegative ==
    \A o \in Computed :
        /\ o.summary.soc_swing >= 0
        /\ IsRound2Of(o.summary.soc_swing,
                      ColMax(rows, "SOC_opt") - ColMin(rows, "SOC_opt"))

\* C12 witness: the rows differ in SOC_opt and both entry points computed a
\* positive swing.
C12_Witness ==
    /\ Len(rows) >= 2
    /\ \E i, j \in 1..Len(rows) : rows[i]["SOC_opt"] < rows[j]["SOC_opt"]
    /\ scriptSummary.status = "ok" /\ scriptSummary.summary.soc_swing > 0
    /\ botSummary.status = "ok" /\ botSummary.summary.soc_swing > 0

\* The rows whose solar flows are all non-negative.
SolarFlowsNonNegative ==
    \A i \in 1..Len(rows) :
        /\ rows[i]["pv_utilized_kw_opt"] >= 0
        /\ rows[i]["pv_to_grid_kw_opt"] >= 0

\* C13: when every pv_utilized_kw_opt and every pv_to_grid_kw_opt value of a
\* non-empty row sequence is non-negative, solar_self_consumed and
\* solar_exported are non-negative in either copy of the summary.
C13_SolarNonNegative ==
    SolarFlowsNonNegative =>
        \A o \in Computed :
            /\ o.summary.solar_self_consumed >= 0
            /\ o.summary.solar_exported >= 0

\* C13 witness: two rows with non-negative solar flows, not all zero, and
\* both entry points computed positive solar figures.
C13_Witness ==
    /\ Len(rows) >= 2
    /\ SolarFlowsNonNegative
    /\ \E i \in 1..Len(rows) : rows[i]["pv_utilized_kw_opt"] = 0
    /\ scriptSummary.status = "ok" /\ scriptSummary.summary.solar_self_consumed > 0
    /\ botSummary.status = "ok" /\ botSummary.summary.solar_exported > 0

\* C14: the summary built by dataclean.py and the summary built by
\* generate_daily_report on the same rows agree: both fail with the same
\* error, or both succeed with the same value for each of the 19 metrics of
\* the table.
C14_CopiesAgree ==
    (scriptSummary # None /\ botSummary # None) =>
        /\ scriptSummary.status = botSummary.status
        /\ scriptSummary.status = "error" => scriptSummary.error = botSummary.error
        /\ scriptSummary.status = "ok" =>
            \A k \in TableKeys : scriptSummary.summary[k] = botSummary.summary[k]

\* C14 witness: both copies computed a summary of two rows with distinct
\* prices, a positive solar total and a division by a zero load sum.
C14_Witness ==
    /\ Len(rows) >= 2
    /\ scriptSummary.status = "ok" /\ botSummary.status = "ok"
    /\ scriptSummary.summary.total_solar > 0
    /\ scriptSummary.summary.peak_price # scriptSummary.summary.cheap_price
    /\ scriptSummary.summary.solar_coverage_pct.kind = "inf"
    /\ botSummary.summary.solar_coverage_pct.kind = "inf"

\* C14 witness of the failing case: a column is absent and both copies
\* raised the KeyError naming it.
C14_WitnessFailure ==
    /\ missing = "SOC_opt"
    /\ scriptSummary = Err(KeyErrText("SOC_opt"))
    /\ botSummary = Err(KeyErrText("SOC_opt"))

\* C15 (as claimed): within one report of generate_daily_report, the
\* sun_hours_tomorrow of the summary (templated text, narrator's JSON) equals
\* the sun_hours_tomorrow of the weather summary (narrator's weather
\* context), whether the weather lookup succeeded or failed.
C15_SameSunHoursEverywhere ==
    (botSummary.status = "ok" /\ botWeather # None) =>
        botSummary.summary.sun_hours_tomorrow = botWeather.sun_hours_tomorrow

\* The savings metric of the daily summary of the rows.
DailySavings ==
    Round2(ColSum(rows, "electricity_savings_step")
           + ColSum(rows, "feed_in_revenue_delta_step"))

\* C17 (as claimed): the savings figure of a /status reply, and the one in
\* the context given to the narrator for a free-text message, equal the
\* savings metric of the daily summary of the same rows, which is also the
\* figure of the last /daily summary the bot computed.
C17_SameSavingsFigure ==
    \A i \in 1..Len(log) :
        /\ (Done("status") /\ log[i].ev = "reply_text" /\ log[i].msg.kind = "status")
            => /\ log[i].msg.total_savings = DailySavings
               /\ botSummary.status = "ok"
                    => log[i].msg.total_savings = botSummary.summary.savings
        /\ (Done("text") /\ log[i].ev = "reply_text" /\ log[i].msg.kind = "narration")
            => log[i].msg.prompt.context.total_savings = DailySavings

\* ---------------------------------------------------------------- follow-up chat
\* The history alternates user, assistant, user, ...
Alternates(ms) ==
    \A i \in 1..Len(ms) : ms[i] = IF i % 2 = 1 THEN "user" ELSE "assistant"
ExitLines ==
    {<<"e", "x", "i", "t">>, <<"Q", "U", "I", "T">>, <<"E", "x", "i", "t">>,
     <<"Q", "u", "i", "t">>}
Asked == mode = "script" /\ follow_up \notin ExitLines \cup {NoLine}

\* C16 (as claimed): the history alternates starting with user, and every
\* get_response call of the follow-up chat appended exactly one assistant
\* entry: once a question was typed, the history ends with its answer; after
\* exit or quit in any letter case the history is as it was when the loop
\* was entered or last answered, ending with an assistant entry.
C16_EveryCallAppends ==
    mode = "script" =>
        /\ Alternates(messages)
        /\ Asked => messages[Len(messages)] = "assistant"
        /\ spc = "done" =>
            /\ follow_up \in ExitLines
            /\ messages[Len(messages)] = "assistant"

\* ---------------------------------------------------------------- free-text replies
Replies == Calls("reply_text")
Delivered == SelectSeq(log, LAMBDA e : e.ev = "reply_text" /\ e.ok)
TextDataError == DataError(rows, missing, fileOk, TextColumns)

\* C18 (as claimed): a handled free-text message has at most one delivered
\* reply; with the key unset the narrator is not called and the reply is the
\* missing-key notice; with the key set it is the narrator's text when the
\* call and its delivery succeeded, and the apology otherwise; a failed
\* weather lookup alone does not lead to the apology.
C18_ReplyChosenByKey ==
    Done("text") =>
        /\ Len(Delivered) <= 1
        /\ ~apiKey => ~Made("narrator")
        /\ \A i \in 1..Len(Delivered) :
            IF ~apiKey THEN Delivered[i].msg = NoticeMsg
            ELSE IF Succeeded("narrator") /\ Replies[1].ok
            THEN Delivered[i].msg.kind = "narration"
            ELSE Delivered[i].msg = ApologyMsg

\* The text handle_message sends first, once the typing action succeeded.
FirstTextReply ==
    IF TextDataError # "none" \/ WeatherNulls THEN "apology"
    ELSE IF ~apiKey THEN "missing_key_notice"
    ELSE IF Failed("narrator") THEN "apology"
    ELSE "narration"

\* C18 (amended): a handled free-text message has at most one delivered
\* reply, and none when the typing action failed.  The first reply sent is
\* the apology when the data could not be loaded or read or the forecast
\* held a null that the prompt cannot format, whatever the key;
\* otherwise the missing-key notice, with no narrator call, when the key is
\* unset; otherwise the narrator's text when the call succeeded and the
\* apology when it failed.  A notice or narrator's text whose delivery failed
\* is followed by one apology and nothing else is sent.  A failed weather
\* lookup alone does not lead to the apology.
C18_ReplyChosenInOrder ==
    Done("text") =>
        /\ Len(Delivered) <= 1
        /\ ~apiKey => ~Made("narrator")
        /\ ~Succeeded("chat_action") => Replies = <<>>
        /\ Succeeded("chat_action") =>
            /\ Len(Replies) \in {1, 2}
            /\ Replies[1].msg.kind = FirstTextReply
            /\ Len(Replies) = 2 <=> (~Replies[1].ok /\ Replies[1].msg # ApologyMsg)
            /\ Len(Replies) = 2 => Replies[2].msg = ApologyMsg
        /\ (Failed("weather") /\ TextDataError = "none"
                /\ (~apiKey \/ Succeeded("narrator")))
            => Replies[1].msg # ApologyMsg

\* C18 witness: the weather lookup failed, the narrator was called with the
\* fallback weather values and its text was the one reply delivered.
C18_Witness ==
    /\ Done("text")
    /\ Failed("weather")
    /\ Succeeded("narrator")
    /\ Len(Replies) = 1
    /\ Replies[1].ok
    /\ Replies[1].msg.kind = "narration"
    /\ Replies[1].msg.prompt.weather.sun_hours_tomorrow = 60

\* ---------------------------------------------------------------- /daily photo
ReportTexts == {"template", "narration"}
ReportFailed == SummaryError # "none" \/ WeatherNulls \/ Failed("render")

\* C19: for a handled /daily, the photo is sent only when
\* generate_daily_report completed every step, and only directly after the
\* report text was delivered; when the data, the summary, the prompt or the
\* chart rendering failed (the last also after a narration or a templated text was
\* obtained) the one text sent is the error message naming the failure, the
\* obtained text is never sent and no photo is sent.
C19_PhotoOnlyAfterCompleteReport ==
    Done("daily") =>
        /\ \A i \in 1..Len(log) :
            log[i].ev = "send_photo" =>
                /\ ~ReportFailed
                /\ Succeeded("render")
                /\ i > 1
                /\ log[i - 1].ev = "reply_text"
                /\ log[i - 1].ok
                /\ log[i - 1].msg.kind \in ReportTexts
        /\ (Succeeded("chat_action") /\ ReportFailed) =>
            /\ ~Made("send_photo")
            /\ Replies[1].msg =
                ErrorMsg(ReportPrefix,
                         IF SummaryError # "none" THEN SummaryError
                         ELSE IF WeatherNulls THEN PromptErrText
                         ELSE RenderErrText)
            /\ \A i \in 1..Len(Replies) : Replies[i].msg.kind \notin ReportTexts

\* C19 witness: the narrator returned a text, the chart rendering then
\* failed; the error message was delivered, the narration and the photo were
\* not sent.
C19_Witness ==
    /\ Done("daily")
    /\ Succeeded("narrator")
    /\ Failed("render")
    /\ Len(Replies) = 1
    /\ Replies[1].ok
    /\ Replies[1].msg = ErrorMsg(ReportPrefix, RenderErrText)
    /\ ~Made("send_photo")
====
